---------------------------- MODULE Spec2Model ----------------------------
(***************************************************************************)
(* Model of the chunking engine of                                         *)
(* data-pipeline/app/processors/chunker.py: SmartChunker (boundary scan,   *)
(* end-point scoring, overlap-aware chunk assembly) and                    *)
(* HierarchicalChunker (per-level passes that overwrite and restore the    *)
(* instance's size fields).                                                *)
(*                                                                         *)
(* A text is a sequence of one-character strings; offsets are 0-based as   *)
(* in the source, so the character at offset i of s is s[i + 1].           *)
(***************************************************************************)
EXTENDS Integers, Sequences, FiniteSets, TLC

(***************************************************************************)
(* Bounds of the model.                                                    *)
(***************************************************************************)
MaxAtoms == 3
MaxSize == 2
MaxOverlap == 2
MaxPreemptions == 2
MaxCalls == 3

(***************************************************************************)
(* Characters.                                                             *)
(***************************************************************************)
Whitespace == {" ", "\n", "\t", "\r"}
SentenceEnd == {".", "!", "?"}
Punctuation == {".", "!", "?", ",", ":", ";"}
Capitals == {"A", "B", "C", "D", "E", "F", "G", "H", "I", "J", "K", "L", "M",
             "N", "O", "P", "Q", "R", "S", "T", "U", "V", "W", "X", "Y", "Z"}

IsSpace(c) == c \in Whitespace

Min2(a, b) == IF a <= b THEN a ELSE b
Max2(a, b) == IF a >= b THEN a ELSE b
Abs(n) == IF n < 0 THEN -n ELSE n

\* s[i] of the source: the character at 0-based offset i.
At(s, i) == s[i + 1]

\* s[i:j] of the source for 0 <= i, 0 <= j (Python clamps j to len(s)).
Slice(s, i, j) == SubSeq(s, i + 1, Min2(j, Len(s)))

RECURSIVE Flatten(_)
Flatten(ss) == IF ss = <<>> THEN <<>> ELSE Head(ss) \o Flatten(Tail(ss))

(***************************************************************************)
(* str.strip(): leading and trailing whitespace removed.                   *)
(***************************************************************************)
RECURSIVE LStrip(_)
LStrip(s) == IF s # <<>> /\ IsSpace(Head(s)) THEN LStrip(Tail(s)) ELSE s

RECURSIVE RStrip(_)
RStrip(s) ==
    IF s # <<>> /\ IsSpace(s[Len(s)]) THEN RStrip(SubSeq(s, 1, Len(s) - 1)) ELSE s

Strip(s) == RStrip(LStrip(s))

(***************************************************************************)
(* The regular expressions of boundary_markers, by index in the list.      *)
(* RunEnd(s, i, set) is the offset just after the maximal run of           *)
(* characters of `set` that starts at offset i (i itself when there is     *)
(* none).  MatchEnd(p, s, i) is the end offset of the match of pattern p   *)
(* that starts at offset i of s, or -1 when p does not match there.  The   *)
(* lookbehinds and lookaheads see only s, as re does on a sliced string.   *)
(***************************************************************************)
PatternCount == 10

RECURSIVE RunEnd(_, _, _)
RunEnd(s, i, set) ==
    IF i < Len(s) /\ At(s, i) \in set THEN RunEnd(s, i + 1, set) ELSE i

Behind(s, i, set) == i >= 1 /\ At(s, i - 1) \in set

\* offset just after the last "\n" in offsets [i, e), or -1
RECURSIVE LastNewline(_, _, _)
LastNewline(s, i, e) ==
    IF e <= i THEN -1
    ELSE IF At(s, e - 1) = "\n" THEN e ELSE LastNewline(s, i, e - 1)

MatchEnd(p, s, i) ==
    LET ws == RunEnd(s, i, Whitespace)
        spaceHere == i < Len(s) /\ IsSpace(At(s, i))
    IN CASE p = 0 ->  \* \n\s*\n+
              IF i < Len(s) /\ At(s, i) = "\n"
              THEN LastNewline(s, i + 1, RunEnd(s, i + 1, Whitespace))
              ELSE -1
         [] p = 1 ->  \* (?<=[.!?])\s+(?=[A-Z])
              IF spaceHere /\ Behind(s, i, SentenceEnd)
                 /\ ws < Len(s) /\ At(s, ws) \in Capitals
              THEN ws ELSE -1
         [] p = 2 ->  \* (?<=:)\s+(?=[A-Z])
              IF spaceHere /\ Behind(s, i, {":"})
                 /\ ws < Len(s) /\ At(s, ws) \in Capitals
              THEN ws ELSE -1
         [] p = 3 ->  \* (?<=[.!?])\s+
              IF spaceHere /\ Behind(s, i, SentenceEnd) THEN ws ELSE -1
         [] p = 4 ->  \* (?<=;)\s+
              IF spaceHere /\ Behind(s, i, {";"}) THEN ws ELSE -1
         [] p = 5 ->  \* \n+
              IF i < Len(s) /\ At(s, i) = "\n" THEN RunEnd(s, i, {"\n"}) ELSE -1
         [] p = 6 ->  \* (?<=,)\s+
              IF spaceHere /\ Behind(s, i, {","}) THEN ws ELSE -1
         [] p = 7 ->  \* (?<=:)\s+
              IF spaceHere /\ Behind(s, i, {":"}) THEN ws ELSE -1
         [] p = 8 ->  \* \s-\s
              IF spaceHere /\ i + 2 < Len(s) /\ At(s, i + 1) = "-"
                 /\ IsSpace(At(s, i + 2))
              THEN i + 3 ELSE -1
         [] OTHER ->  \* \s\s+
              IF spaceHere /\ ws >= i + 2 THEN ws ELSE -1

\* [m.start() for m in re.finditer(pattern, s)]: leftmost, non-overlapping.
RECURSIVE ScanFrom(_, _, _)
ScanFrom(p, s, i) ==
    IF i >= Len(s) THEN <<>>
    ELSE LET e == MatchEnd(p, s, i)
         IN IF e >= 0 THEN <<i>> \o ScanFrom(p, s, e) ELSE ScanFrom(p, s, i + 1)

finditer(p, s) == ScanFrom(p, s, 0)

(***************************************************************************)
(* _count_tokens: len(word_tokenize(text)).  The tokenizer is NLTK's; it   *)
(* is modelled by what it does on the characters used here: every          *)
(* punctuation mark is a token and every maximal run of other              *)
(* non-whitespace characters is a token.                                   *)
(***************************************************************************)
IsWordChar(c) == ~IsSpace(c) /\ c \notin Punctuation

RECURSIVE CountFrom(_, _)
CountFrom(s, i) ==
    IF i >= Len(s) THEN 0
    ELSE IF At(s, i) \in Punctuation THEN 1 + CountFrom(s, i + 1)
    ELSE IF IsWordChar(At(s, i))
         THEN (IF i + 1 < Len(s) /\ IsWordChar(At(s, i + 1)) THEN 0 ELSE 1)
              + CountFrom(s, i + 1)
    ELSE CountFrom(s, i + 1)

count_tokens(s) == CountFrom(s, 0)

(***************************************************************************)
(* _preprocess_text: re.sub(r'\s+', ' ', text), then the two replace()     *)
(* calls, then strip().                                                    *)
(***************************************************************************)
RECURSIVE CollapseFrom(_, _)
CollapseFrom(s, i) ==
    IF i >= Len(s) THEN <<>>
    ELSE IF IsSpace(At(s, i))
         THEN <<" ">> \o CollapseFrom(s, RunEnd(s, i, Whitespace))
         ELSE <<At(s, i)>> \o CollapseFrom(s, i + 1)

RECURSIVE ReplaceNewlines(_, _)
ReplaceNewlines(s, i) ==
    IF i >= Len(s) THEN <<>>
    ELSE IF At(s, i) = "\r" /\ i + 1 < Len(s) /\ At(s, i + 1) = "\n"
         THEN <<"\n">> \o ReplaceNewlines(s, i + 2)
    ELSE IF At(s, i) = "\r" THEN <<"\n">> \o ReplaceNewlines(s, i + 1)
    ELSE <<At(s, i)>> \o ReplaceNewlines(s, i + 1)

preprocess_text(s) == Strip(ReplaceNewlines(CollapseFrom(s, 0), 0))

(***************************************************************************)
(* _find_split_points: 0, len(text) and the start of every match of every  *)
(* pattern, sorted.                                                        *)
(***************************************************************************)
SeqRange(q) == {q[k] : k \in DOMAIN q}

RECURSIVE SortedSeq(_)
SortedSeq(S) ==
    IF S = {} THEN <<>>
    ELSE LET m == CHOOSE x \in S : \A y \in S : x <= y
         IN <<m>> \o SortedSeq(S \ {m})

find_split_points_unsorted(s) ==
    <<0, Len(s)>>
    \o SortedSeq(UNION {SeqRange(finditer(p, s)) : p \in 0 .. PatternCount - 1}
                 \ {0, Len(s)})

find_split_points(s) ==
    SortedSeq({0, Len(s)}
              \cup UNION {SeqRange(finditer(p, s)) : p \in 0 .. PatternCount - 1})

(***************************************************************************)
(* _calculate_boundary_score, in tenths (1.0 is 10, 0.1 is 1): the         *)
(* document boundaries score 1.0; otherwise the first pattern of the list  *)
(* with a match starting less than SnapDistance characters from the        *)
(* position, searched in the context of ContextRadius characters around    *)
(* it, gives 1.0 - i / len(boundary_markers).                              *)
(***************************************************************************)
ContextRadius == 10
SnapDistance == 3

PatternHitsNear(s, position, p) ==
    LET context_start == Max2(0, position - ContextRadius)
        context_end == Min2(Len(s), position + ContextRadius)
        starts == finditer(p, Slice(s, context_start, context_end))
    IN \E k \in DOMAIN starts :
           Abs(context_start + starts[k] - position) < SnapDistance

calculate_boundary_score(s, position) ==
    IF position <= 0 \/ position >= Len(s) THEN 10
    ELSE LET hits == {p \in 0 .. PatternCount - 1 : PatternHitsNear(s, position, p)}
         IN IF hits = {} THEN 1
            ELSE LET i == CHOOSE x \in hits : \A y \in hits : x <= y
                 IN (10 * (PatternCount - i)) \div PatternCount

(***************************************************************************)
(* _find_best_end_point.  A candidate's score                              *)
(*     size_score * 0.7 + boundary_score * 0.3                             *)
(* is kept as the integer 100 * target_chunk_size * score, which orders    *)
(* the candidates of one call as the score does.                           *)
(***************************************************************************)
Score(c, token_count, boundary10) ==
    70 * (c.target_chunk_size - Abs(token_count - c.target_chunk_size))
    + 3 * boundary10 * c.target_chunk_size

RECURSIVE ScanCandidatesUnfiltered(_, _, _, _, _)
ScanCandidatesUnfiltered(s, start, valid, c, k) ==
    IF k > Len(valid) THEN <<>>
    ELSE LET end == valid[k]
             token_count == count_tokens(Slice(s, start, end))
         IN <<[end |-> end, token_count |-> token_count,
               score |-> Score(c, token_count, calculate_boundary_score(s, end))]>>
            \o (IF token_count >= c.max_chunk_size THEN <<>>
                ELSE ScanCandidatesUnfiltered(s, start, valid, c, k + 1))

\* the loop over valid_end_points from its k-th element, with its break
RECURSIVE ScanCandidates(_, _, _, _, _)
ScanCandidates(s, start, valid, c, k) ==
    IF k > Len(valid) THEN <<>>
    ELSE LET end == valid[k]
             token_count == count_tokens(Slice(s, start, end))
         IN IF token_count >= c.min_chunk_size
            THEN <<[end |-> end, token_count |-> token_count,
                    score |-> Score(c, token_count,
                                    calculate_boundary_score(s, end))]>>
                 \o (IF token_count >= c.max_chunk_size THEN <<>>
                     ELSE ScanCandidates(s, start, valid, c, k + 1))
            ELSE ScanCandidates(s, start, valid, c, k + 1)

valid_end_points(split_pts, start) == SelectSeq(split_pts, LAMBDA p : p > start)

BestCandidateFirst(cands) == cands[1]

\* candidates.sort(key=score, reverse=True)[0]: the sort is stable, so the
\* first candidate of maximal score.
BestCandidate(cands) ==
    LET k == CHOOSE i \in DOMAIN cands :
                 /\ \A j \in DOMAIN cands : cands[j].score <= cands[i].score
                 /\ \A j \in 1 .. i - 1 : cands[j].score < cands[i].score
    IN cands[k]

FallbackFromZero(s, start, valid, c) == Min2(valid[1], c.max_chunk_size)
\* min(next_point, start + self.max_chunk_size), line 267
Fallback(s, start, valid, c) == Min2(valid[1], start + c.max_chunk_size)

find_best_end_point(s, start, split_pts, c) ==
    LET valid == valid_end_points(split_pts, start)
        candidates == ScanCandidates(s, start, valid, c, 1)
    IN IF valid = <<>> THEN Len(s)
       ELSE IF candidates = <<>> THEN Fallback(s, start, valid, c)
       ELSE BestCandidate(candidates).end

(***************************************************************************)
(* _find_good_boundary with forward=True: the first match of the first     *)
(* pattern of the list that matches in text[start:end], else start.        *)
(***************************************************************************)
find_good_boundary(s, start, end) ==
    LET section == Slice(s, start, end)
        found == {p \in 0 .. PatternCount - 1 : finditer(p, section) # <<>>}
    IN IF found = {} THEN start
       ELSE LET p == CHOOSE x \in found : \A y \in found : x <= y
            IN start + finditer(p, section)[1]

(***************************************************************************)
(* One iteration of the loop of _create_chunks, after best_end is known:   *)
(* the chunk it appends (none when empty after strip()) and next_start.    *)
(***************************************************************************)
EmitKeepEmpty(chunk_list, s, start, end) ==
    Append(chunk_list, Strip(Slice(s, start, end)))

Emit(chunk_list, s, start, end) ==
    LET chunk == Strip(Slice(s, start, end))
    IN IF chunk # <<>> THEN Append(chunk_list, chunk) ELSE chunk_list

SimpleOverlapSignSlip(start, end, c) ==
    Max2(start + 1, end + c.overlap_size)
SimpleOverlapFromStart(start, end, c) ==
    Max2(start, end - c.overlap_size)
SimpleOverlap(start, end, c) ==
    Max2(start + 1, end - c.overlap_size)

OverlapStartWide(start, end, c) == start
OverlapStart(start, end, c) == Max2(start, end - c.overlap_size)

next_start(s, start, end, c) ==
    IF c.smart_overlap
    THEN find_good_boundary(s, OverlapStart(start, end, c), end)
    ELSE SimpleOverlap(start, end, c)

(***************************************************************************)
(* chunk_text, lines 87-104: the dictionaries built from the chunk list.   *)
(* A dictionary is a function on its keys; the caller's metadata is        *)
(* written over the engine's keys last.  _generate_chunk_id keeps the      *)
(* first 8 hex digits of the MD5 of the text; the digest is modelled by a  *)
(* polynomial hash into HashSpace values.                                  *)
(***************************************************************************)
HashSpace == 65536

CharCode(ch) ==
    CASE ch = "a" -> 97 [] ch = "A" -> 65 [] ch = " " -> 32 [] ch = "." -> 46
      [] ch = "-" -> 45 [] ch = "," -> 44 [] ch = ":" -> 58 [] ch = ";" -> 59
      [] ch = "\n" -> 10 [] OTHER -> 63

RECURSIVE TextHash(_)
TextHash(s) ==
    IF s = <<>> THEN 7
    ELSE (31 * TextHash(SubSeq(s, 1, Len(s) - 1)) + CharCode(s[Len(s)])) % HashSpace

generate_chunk_id(s, index) == <<"chunk", index, TextHash(s)>>

NoMetadata == [k \in {} |-> 0]

Truthy(map) == DOMAIN map # {}

DictUpdate(d, map) ==
    [k \in DOMAIN d \cup DOMAIN map |-> IF k \in DOMAIN map THEN map[k] ELSE d[k]]

ChunkDict(chunk_list, i, md) ==
    LET chunk_dict == [text |-> chunk_list[i + 1],
                       chunk_id |-> generate_chunk_id(chunk_list[i + 1], i),
                       chunk_index |-> i,
                       total_chunks |-> Len(chunk_list)]
    IN IF Truthy(md) THEN DictUpdate(chunk_dict, md) ELSE chunk_dict

processed_chunks(chunk_list, md) ==
    [k \in 1 .. Len(chunk_list) |-> ChunkDict(chunk_list, k - 1, md)]

\* `not text or not text.strip()'
IsBlank(s) == s = <<>> \/ Strip(s) = <<>>

(***************************************************************************)
(* Inputs.  A text is up to MaxAtoms atoms in a row, or one of a few texts  *)
(* with line breaks.  The sizes of an                                      *)
(* instance are 1..MaxSize and its overlap 0..MaxOverlap; the constructor  *)
(* checks nothing, so min_chunk_size may exceed max_chunk_size.            *)
(***************************************************************************)
Atoms == {<<"a">>, <<"A">>, <<" ">>, <<".", " ">>, <<" ", "-", " ">>}

LineBreakTexts == {<<"\n">>, <<" ", "\n">>, <<"a", "\n", "\n", "A">>,
                   <<"a", ".", "\r", "\n", "A">>}

\* a text whose first two candidate ends can have equal scores
ScoreTieTexts == {<<".", " ", "a", ".", " ", "a">>}

\* a text with a split point, 1, that lies exactly SnapDistance characters
\* before the match of a stronger pattern, at 4
WindowEdgeTexts == {<<".", " ", "a", ".", " ", "A">>}

Texts == {Flatten(q) : q \in UNION {[1 .. n -> Atoms] : n \in 0 .. MaxAtoms}}
         \cup LineBreakTexts \cup ScoreTieTexts \cup WindowEdgeTexts

Metadatas == {NoMetadata,
              [source_field |-> "description"],
              [chunk_index |-> 7, total_chunks |-> 9]}

SmartConfigs ==
    [target_chunk_size : 1 .. MaxSize, min_chunk_size : 1 .. MaxSize,
     max_chunk_size : 1 .. MaxSize, overlap_size : 0 .. MaxOverlap,
     smart_overlap : BOOLEAN]

ValidConfig(c) == c.min_chunk_size <= c.max_chunk_size

(***************************************************************************)
(* The constructors.  SmartChunker.__init__ takes five keyword parameters  *)
(* with defaults; HierarchicalChunker.__init__ takes **kwargs, hands all   *)
(* of them to SmartChunker.__init__ and then reads `levels' and            *)
(* `level_size_multiplier' from them.  Keyword arguments are a function on *)
(* the names given.                                                        *)
(***************************************************************************)
DefaultTargetChunkSize == 512
DefaultMinChunkSize == 128
DefaultMaxChunkSize == 1024
DefaultOverlapSize == 50

SmartParams == {"target_chunk_size", "min_chunk_size", "max_chunk_size",
                "overlap_size", "smart_overlap"}

SmartDefaults ==
    [target_chunk_size |-> DefaultTargetChunkSize,
     min_chunk_size |-> DefaultMinChunkSize,
     max_chunk_size |-> DefaultMaxChunkSize,
     overlap_size |-> DefaultOverlapSize,
     smart_overlap |-> TRUE]

Restrict(map, keys) == [k \in DOMAIN map \cap keys |-> map[k]]

\* kwargs.get(key, default)
Get(map, key, default) == IF key \in DOMAIN map THEN map[key] ELSE default

\* a constructor call that returned the instance with the fields `fields'
Constructed(class, fields) ==
    [class |-> class, kwargs |-> Restrict(fields, SmartParams), outcome |-> "returned"]

\* no chunk_structured_document call is in progress
NoWalk == [pc |-> "idle"]

(***************************************************************************)
(* State.                                                                  *)
(*   self           the chunker instance's fields                          *)
(*   configured     history: the fields as the constructor set them        *)
(*   raw            the text argument of the chunk_text call(s)            *)
(*   metadata       the metadata argument of the SmartChunker.chunk_text   *)
(*                  call, chosen when the call first reads it (line 98)    *)
(*   pc             position of the SmartChunker.chunk_text call           *)
(*   text, split_points, current_start, best_end, chunks                   *)
(*                  the locals of chunk_text and _create_chunks            *)
(*   spans          history: the (start, end, next_start) of every         *)
(*                  iteration of the loop so far                           *)
(*   result         the list chunk_text returned                           *)
(*   callers        the HierarchicalChunker.chunk_text calls in progress   *)
(*                  on the instance, with their locals                     *)
(*   sched          the thread scheduler: the caller that holds the        *)
(*                  interpreter, and how often it was taken from a caller  *)
(*                  that had not returned                                  *)
(*   ctor           the constructor call that made the instance: its       *)
(*                  class, its keyword arguments and its outcome           *)
(*   walker         the StructuredChunker.chunk_structured_document call   *)
(*                  that makes the chunk_text calls, with its locals       *)
(*   earlier        history: the text, metadata and result of the          *)
(*                  chunk_text calls that returned before the current one  *)
(***************************************************************************)
VARIABLES self, configured, raw, metadata, pc, text, split_points,
          current_start, best_end, chunks, spans, result, callers, sched,
          ctor, walker, earlier

vars == <<self, configured, raw, metadata, pc, text, split_points,
          current_start, best_end, chunks, spans, result, callers, sched,
          ctor, walker, earlier>>

\* what surrounds the chunk_text calls
outer == <<ctor, walker, earlier>>

smartVars == <<pc, text, split_points, current_start, best_end, chunks,
               spans, result>>

\* A pass that stops advancing appends to its lists for ever; the model keeps
\* the first len(text) + 1 entries, more than any pass that returns produces.
Recorded(s) == Len(s) + 1

SmartStart(callTexts) ==
    /\ self \in SmartConfigs
    /\ configured = self
    /\ raw \in callTexts
    /\ metadata = NoMetadata
    /\ pc = "call"
    /\ text = <<>>
    /\ split_points = <<>>
    /\ current_start = 0
    /\ best_end = 0
    /\ chunks = <<>>
    /\ spans = <<>>
    /\ result = <<>>
    /\ callers = <<>>
    /\ sched = [running |-> 1, preemptions |-> 0]
    /\ ctor = Constructed("SmartChunker", self)
    /\ walker = NoWalk
    /\ earlier = <<>>

ChunkTextEmptyEchoes ==
    /\ pc = "call"
    /\ IsBlank(raw)
    /\ result' = processed_chunks(<<raw>>, metadata)
    /\ pc' = "done"
    /\ UNCHANGED <<self, configured, outer, raw, metadata, text, split_points,
                   current_start, best_end, chunks, spans, callers, sched>>

\* chunk_text, lines 75-76: nothing to chunk
ChunkTextEmpty ==
    /\ pc = "call"
    /\ IsBlank(raw)
    /\ result' = <<>>
    /\ pc' = "done"
    /\ UNCHANGED <<self, configured, outer, raw, metadata, text, split_points, current_start,
                   best_end, chunks, spans, callers, sched>>

\* chunk_text, lines 79-85, up to the first test of the loop of _create_chunks
ChunkTextBegin ==
    /\ pc = "call"
    /\ ~IsBlank(raw)
    /\ text' = preprocess_text(raw)
    /\ split_points' = find_split_points(text')
    /\ chunks' = <<>>
    /\ current_start' = 0
    /\ pc' = "loop"
    /\ UNCHANGED <<self, configured, outer, raw, metadata, best_end, spans, result, callers, sched>>

\* _create_chunks, lines 210-212
FindBestEnd ==
    /\ pc = "loop"
    /\ current_start < Len(text)
    /\ best_end' = find_best_end_point(text, current_start, split_points, self)
    /\ pc' = "emit"
    /\ UNCHANGED <<self, configured, outer, raw, metadata, text, split_points, current_start,
                   chunks, spans, result, callers, sched>>

\* _create_chunks, lines 215-228
EmitAndAdvance ==
    /\ pc = "emit"
    /\ LET next == next_start(text, current_start, best_end, self)
           emitted == Emit(chunks, text, current_start, best_end)
       IN /\ chunks' = IF Len(emitted) <= Recorded(text) THEN emitted ELSE chunks
          /\ spans' = IF Len(spans) < Recorded(text)
                      THEN Append(spans, [start |-> current_start,
                                          end |-> best_end,
                                          next_start |-> next,
                                          emitted |-> Len(emitted) > Len(chunks)])
                      ELSE spans
          /\ current_start' = next
    /\ pc' = "loop"
    /\ UNCHANGED <<self, configured, outer, raw, metadata, text, split_points, best_end, result,
                   callers, sched>>

\* the metadata argument: the one the walk passed, else any of Metadatas
PassedMetadatas == IF walker.pc = "in_call" THEN {metadata} ELSE Metadatas

ChunkTextReturnCounting ==
    /\ pc = "loop"
    /\ ~(current_start < Len(text))
    /\ \E md \in PassedMetadatas :
           /\ metadata' = md
           /\ result' = [k \in DOMAIN chunks |->
                             [processed_chunks(chunks, md)[k] EXCEPT
                                 !["chunk_index"] = @ + Len(earlier)]]
    /\ pc' = "done"
    /\ UNCHANGED <<self, configured, outer, raw, text, split_points, current_start,
                   best_end, chunks, spans, callers, sched>>

\* _create_chunks returns; chunk_text, lines 87-104
ChunkTextReturn ==
    /\ pc = "loop"
    /\ ~(current_start < Len(text))
    /\ \E md \in PassedMetadatas :
           /\ metadata' = md
           /\ result' = processed_chunks(chunks, md)
    /\ pc' = "done"
    /\ UNCHANGED <<self, configured, outer, raw, text, split_points, current_start, best_end,
                   chunks, spans, callers, sched>>

SmartNext ==
    \/ ChunkTextEmpty
    \/ ChunkTextBegin
    \/ FindBestEnd
    \/ EmitAndAdvance
    \/ ChunkTextReturn

(***************************************************************************)
(* HierarchicalChunker.chunk_text.  Each call in progress on the instance  *)
(* is a caller with its own locals; a step is one statement of the loop    *)
(* body, so that calls running in different threads interleave between     *)
(* statements.  level_size_multiplier is the fraction num / den.           *)
(***************************************************************************)
RECURSIVE Pow(_, _)
Pow(b, e) == IF e = 0 THEN 1 ELSE b * Pow(b, e - 1)

\* int(size * (level_size_multiplier ** level))
Scaled(size, m, level) == (size * Pow(m.num, level)) \div Pow(m.den, level)

\* HierarchicalChunker.__init__ hands all its keyword arguments to
\* SmartChunker.__init__, which accepts neither `levels' nor
\* `level_size_multiplier': an instance that exists was built without them
\* and holds the defaults, 3 and 2.5.
DefaultLevels == 3
DefaultMultiplier == [num |-> 5, den |-> 2]

HierConfigs ==
    [target_chunk_size : 1 .. MaxSize, min_chunk_size : {1},
     max_chunk_size : {MaxSize}, overlap_size : {0},
     smart_overlap : {TRUE}, levels : {DefaultLevels},
     level_size_multiplier : {DefaultMultiplier}]

HierTexts == {<<>>, <<" ", "\n">>, <<"a", ".", " ", "A">>}

HierMetadatas == {[source_field |-> "description"],
                  [is_summary |-> TRUE, level |-> 9]}

\* the texts of the calls that run concurrently
ConcurrentTexts == {<<" ">>, <<"a", ".", " ", "A">>}

\* last_pass is history: the level of the caller's latest pass, the sizes the
\* instance held when the pass last looked at it, whether the pass returned
\* and how many chunks it returned
NoPass == [level |-> -1, target_chunk_size |-> 0, max_chunk_size |-> 0,
           returned |-> FALSE, level_chunks |-> 0]

\* text .. chunks are the locals of the SmartChunker.chunk_text call that
\* the caller's level pass is
NewCaller ==
    [pc |-> "for", level |-> 0, level_target_size |-> 0, level_max_size |-> 0,
     original_target |-> 0, original_max |-> 0, all_chunks |-> <<>>,
     text |-> <<>>, split_points |-> <<>>, current_start |-> 0,
     best_end |-> 0, chunks |-> <<>>, last_pass |-> NoPass]

HierStart(callerSet, callTexts) ==
    /\ self \in HierConfigs
    /\ configured = self
    /\ metadata \in HierMetadatas
    /\ raw \in callTexts
    /\ callers = [t \in callerSet |-> NewCaller]
    /\ pc = "unused"
    /\ text = <<>>
    /\ split_points = <<>>
    /\ current_start = 0
    /\ best_end = 0
    /\ chunks = <<>>
    /\ spans = <<>>
    /\ result = <<>>
    /\ sched = [running |-> 1, preemptions |-> 0]
    /\ ctor = Constructed("HierarchicalChunker", self)
    /\ walker = NoWalk
    /\ earlier = <<>>

\* Caller t takes its next step: it holds the interpreter already, or the
\* holder has returned, or the holder is preempted (at most MaxPreemptions
\* times in one behaviour).
Schedule(t) ==
    LET holder == sched.running
    IN \/ t = holder /\ sched' = sched
       \/ t # holder /\ callers[holder].pc = "returned"
          /\ sched' = [sched EXCEPT !.running = t]
       \/ t # holder /\ callers[holder].pc # "returned"
          /\ sched.preemptions < MaxPreemptions
          /\ sched' = [running |-> t, preemptions |-> sched.preemptions + 1]

SetCaller(t, new) ==
    /\ Schedule(t)
    /\ callers' = [callers EXCEPT ![t] = new]
    /\ UNCHANGED <<configured, outer, raw, metadata, smartVars>>

\* line 360: the next level, or line 392: return all_chunks
HierFor(t) ==
    /\ callers[t].pc = "for"
    /\ SetCaller(t, [callers[t] EXCEPT
                       !.pc = IF callers[t].level < self.levels
                              THEN "level_target" ELSE "returned"])
    /\ UNCHANGED self

\* line 362
HierLevelTarget(t) ==
    /\ callers[t].pc = "level_target"
    /\ SetCaller(t, [callers[t] EXCEPT
                       !.level_target_size =
                           Scaled(self.target_chunk_size,
                                  self.level_size_multiplier, callers[t].level),
                       !.pc = "level_max"])
    /\ UNCHANGED self

\* line 363
HierLevelMax(t) ==
    /\ callers[t].pc = "level_max"
    /\ SetCaller(t, [callers[t] EXCEPT
                       !.level_max_size =
                           Scaled(self.max_chunk_size,
                                  self.level_size_multiplier, callers[t].level),
                       !.pc = "save_target"])
    /\ UNCHANGED self

\* line 366
HierSaveTarget(t) ==
    /\ callers[t].pc = "save_target"
    /\ SetCaller(t, [callers[t] EXCEPT !.original_target = self.target_chunk_size,
                                       !.pc = "save_max"])
    /\ UNCHANGED self

\* line 367
HierSaveMax(t) ==
    /\ callers[t].pc = "save_max"
    /\ SetCaller(t, [callers[t] EXCEPT !.original_max = self.max_chunk_size,
                                       !.pc = "set_target"])
    /\ UNCHANGED self

\* line 370
HierSetTarget(t) ==
    /\ callers[t].pc = "set_target"
    /\ self' = [self EXCEPT !.target_chunk_size = callers[t].level_target_size]
    /\ SetCaller(t, [callers[t] EXCEPT !.pc = "set_max"])

\* line 371
HierSetMax(t) ==
    /\ callers[t].pc = "set_max"
    /\ self' = [self EXCEPT !.max_chunk_size = callers[t].level_max_size]
    /\ SetCaller(t, [callers[t] EXCEPT !.pc = "pass"])

\* lines 377-383: the tags written into every chunk of the level
LevelTags(level) ==
    IF level > 0
    THEN [level |-> level, is_hierarchical |-> TRUE, is_summary |-> TRUE]
    ELSE [level |-> level, is_hierarchical |-> TRUE]

\* the level pass of caller t as it stands, with the sizes the instance holds
Ran(t) ==
    [level |-> callers[t].level,
     target_chunk_size |-> self.target_chunk_size,
     max_chunk_size |-> self.max_chunk_size,
     returned |-> FALSE, level_chunks |-> 0]

\* line 374 on a text with nothing to chunk (lines 75-76): the pass returns
\* the empty list, lines 377-386 add nothing
HierPassEmpty(t) ==
    /\ callers[t].pc = "pass"
    /\ IsBlank(raw)
    /\ SetCaller(t, [callers[t] EXCEPT
                       !.last_pass = [Ran(t) EXCEPT !.returned = TRUE],
                       !.pc = "restore_target"])
    /\ UNCHANGED self

\* line 374: the pass enters SmartChunker.chunk_text, lines 79-85, up to the
\* first test of the loop of _create_chunks
HierPassBegin(t) ==
    /\ callers[t].pc = "pass"
    /\ ~IsBlank(raw)
    /\ SetCaller(t, [callers[t] EXCEPT
                       !.text = preprocess_text(raw),
                       !.split_points = find_split_points(preprocess_text(raw)),
                       !.chunks = <<>>,
                       !.current_start = 0,
                       !.last_pass = Ran(t),
                       !.pc = "loop"])
    /\ UNCHANGED self

\* the pass in _create_chunks, lines 210-212: _find_best_end_point reads the
\* sizes the instance holds now
HierPassFindEnd(t) ==
    /\ callers[t].pc = "loop"
    /\ callers[t].current_start < Len(callers[t].text)
    /\ SetCaller(t, [callers[t] EXCEPT
                       !.best_end = find_best_end_point(callers[t].text,
                                                        callers[t].current_start,
                                                        callers[t].split_points, self),
                       !.last_pass = Ran(t),
                       !.pc = "emit"])
    /\ UNCHANGED self

\* the pass in _create_chunks, lines 215-228
HierPassEmit(t) ==
    /\ callers[t].pc = "emit"
    /\ SetCaller(t, [callers[t] EXCEPT
                       !.chunks = Emit(callers[t].chunks, callers[t].text,
                                       callers[t].current_start, callers[t].best_end),
                       !.current_start = next_start(callers[t].text,
                                                    callers[t].current_start,
                                                    callers[t].best_end, self),
                       !.pc = "loop"])
    /\ UNCHANGED self

\* the pass returns (lines 87-104); lines 377-386 tag its chunks and add them
\* to all_chunks
HierPassReturn(t) ==
    /\ callers[t].pc = "loop"
    /\ ~(callers[t].current_start < Len(callers[t].text))
    /\ LET returned == processed_chunks(callers[t].chunks, metadata)
           level_chunks == [k \in DOMAIN returned |->
                               DictUpdate(returned[k], LevelTags(callers[t].level))]
       IN SetCaller(t, [callers[t] EXCEPT
                          !.all_chunks = @ \o level_chunks,
                          !.last_pass = [@ EXCEPT !.returned = TRUE,
                                                  !.level_chunks = Len(level_chunks)],
                          !.text = <<>>,
                          !.split_points = <<>>,
                          !.current_start = 0,
                          !.best_end = 0,
                          !.chunks = <<>>,
                          !.pc = "restore_target"])
    /\ UNCHANGED self

HierRestoreTargetSkipped(t) ==
    /\ callers[t].pc = "restore_target"
    /\ SetCaller(t, [callers[t] EXCEPT !.pc = "restore_max"])
    /\ UNCHANGED self

\* line 389
HierRestoreTarget(t) ==
    /\ callers[t].pc = "restore_target"
    /\ self' = [self EXCEPT !.target_chunk_size = callers[t].original_target]
    /\ SetCaller(t, [callers[t] EXCEPT !.pc = "restore_max"])

\* line 390, and on to the next level
HierRestoreMax(t) ==
    /\ callers[t].pc = "restore_max"
    /\ self' = [self EXCEPT !.max_chunk_size = callers[t].original_max]
    /\ SetCaller(t, [callers[t] EXCEPT !.level = @ + 1, !.pc = "for"])

HierNext ==
    \E t \in DOMAIN callers :
        \/ HierFor(t)
        \/ HierLevelTarget(t)
        \/ HierLevelMax(t)
        \/ HierSaveTarget(t)
        \/ HierSaveMax(t)
        \/ HierSetTarget(t)
        \/ HierSetMax(t)
        \/ HierPassEmpty(t)
        \/ HierPassBegin(t)
        \/ HierPassFindEnd(t)
        \/ HierPassEmit(t)
        \/ HierPassReturn(t)
        \/ HierRestoreTarget(t)
        \/ HierRestoreMax(t)

(***************************************************************************)
(* Construction followed by a chunk_text call on the new instance.         *)
(***************************************************************************)
NoAttributes == [k \in {} |-> 0]

\* the sizes a constructor call passes, and the options of the hierarchical
\* chunker it may add to them
SizeKwargs ==
    [target_chunk_size : 1 .. MaxSize, min_chunk_size : 1 .. MaxSize,
     max_chunk_size : 1 .. MaxSize, overlap_size : {0}]

HierOptionKwargs ==
    {NoAttributes}
    \cup [levels : 0 .. 2]
    \cup [level_size_multiplier : {[num |-> 2, den |-> 1]}]
    \cup [levels : 0 .. 2, level_size_multiplier : {[num |-> 2, den |-> 1]}]

CtorKwargs == {DictUpdate(sizes, options) : sizes \in SizeKwargs,
                                            options \in HierOptionKwargs}

ConstructStart(callTexts) ==
    /\ ctor \in [class : {"SmartChunker", "HierarchicalChunker"},
                 kwargs : CtorKwargs, outcome : {"called"}]
    /\ self = NoAttributes
    /\ configured = NoAttributes
    /\ raw \in callTexts
    /\ metadata \in IF ctor.class = "SmartChunker" THEN {NoMetadata} ELSE HierMetadatas
    /\ pc = "new"
    /\ text = <<>>
    /\ split_points = <<>>
    /\ current_start = 0
    /\ best_end = 0
    /\ chunks = <<>>
    /\ spans = <<>>
    /\ result = <<>>
    /\ callers = <<>>
    /\ sched = [running |-> 1, preemptions |-> 0]
    /\ walker = NoWalk
    /\ earlier = <<>>

\* Python binds the keyword arguments to the parameters of
\* SmartChunker.__init__ (lines 23-28) before its body runs
BindsToSmartParams(kwargs) == DOMAIN kwargs \subseteq SmartParams

\* SmartChunker(**kwargs), lines 23-43
SmartChunkerInit ==
    /\ pc = "new"
    /\ ctor.class = "SmartChunker"
    /\ IF BindsToSmartParams(ctor.kwargs)
       THEN /\ self' = DictUpdate(SmartDefaults, ctor.kwargs)
            /\ configured' = self'
            /\ ctor' = [ctor EXCEPT !.outcome = "returned"]
            /\ pc' = "call"
       ELSE /\ ctor' = [ctor EXCEPT !.outcome = "TypeError"]
            /\ pc' = "raised"
            /\ UNCHANGED <<self, configured>>
    /\ UNCHANGED <<raw, metadata, text, split_points, current_start, best_end,
                   chunks, spans, result, callers, sched, walker, earlier>>

\* HierarchicalChunker(**kwargs), lines 343-351: line 347 raises when a
\* keyword is no parameter of SmartChunker.__init__
HierarchicalChunkerInit ==
    /\ pc = "new"
    /\ ctor.class = "HierarchicalChunker"
    /\ IF BindsToSmartParams(ctor.kwargs)
       THEN /\ self' = DictUpdate(
                           DictUpdate(SmartDefaults, ctor.kwargs),
                           [levels |-> Get(ctor.kwargs, "levels", DefaultLevels),
                            level_size_multiplier |->
                                Get(ctor.kwargs, "level_size_multiplier",
                                    DefaultMultiplier)])
            /\ configured' = self'
            /\ ctor' = [ctor EXCEPT !.outcome = "returned"]
            /\ callers' = [t \in {1} |-> NewCaller]
            /\ pc' = "unused"
       ELSE /\ ctor' = [ctor EXCEPT !.outcome = "TypeError"]
            /\ pc' = "raised"
            /\ UNCHANGED <<self, configured, callers>>
    /\ UNCHANGED <<raw, metadata, text, split_points, current_start, best_end,
                   chunks, spans, result, sched, walker, earlier>>

ConstructNext ==
    \/ SmartChunkerInit
    \/ HierarchicalChunkerInit
    \/ SmartNext
    \/ HierNext

ConstructInit == ConstructStart(HierTexts)

ConstructSpec == ConstructInit /\ [][ConstructNext]_vars

(***************************************************************************)
(* StructuredChunker.  A value of a document is a Python value with its    *)
(* type: a str (a sequence of characters), an int, None, a list (a         *)
(* sequence of values) or a dict (a function on its keys, which are        *)
(* strs).  A path is a str.                                                *)
(***************************************************************************)
PyStr(s) == [type |-> "str", value |-> s]
PyInt(n) == [type |-> "int", value |-> n]
PyNone == [type |-> "NoneType", value |-> 0]
PyList(items) == [type |-> "list", value |-> items]
PyDict(map) == [type |-> "dict", value |-> map]

\* the truth value of `if value'
Truth(v) ==
    CASE v.type = "str" -> Len(v.value) > 0
      [] v.type = "list" -> Len(v.value) > 0
      [] v.type = "dict" -> DOMAIN v.value # {}
      [] v.type = "int" -> v.value # 0
      [] OTHER -> FALSE

\* s.split(sep) for a one-character sep
RECURSIVE split(_, _)
split(s, sep) ==
    IF \A k \in DOMAIN s : s[k] # sep THEN <<s>>
    ELSE LET k == CHOOSE i \in DOMAIN s :
                      s[i] = sep /\ \A j \in 1 .. i - 1 : s[j] # sep
         IN <<SubSeq(s, 1, k - 1)>> \o split(SubSeq(s, k + 1, Len(s)), sep)

\* s.rstrip(ch)
RECURSIVE rstrip(_, _)
rstrip(s, ch) ==
    IF s # <<>> /\ s[Len(s)] = ch THEN rstrip(SubSeq(s, 1, Len(s) - 1), ch) ELSE s

Digits == <<"0", "1", "2", "3", "4", "5", "6", "7", "8", "9">>

DigitValue(ch) == (CHOOSE k \in DOMAIN Digits : Digits[k] = ch) - 1

RECURSIVE DecimalValue(_)
DecimalValue(s) ==
    IF s = <<>> THEN 0
    ELSE 10 * DecimalValue(SubSeq(s, 1, Len(s) - 1)) + DigitValue(s[Len(s)])

\* int(s): surrounding whitespace and a sign are accepted, then digits must
\* follow; anything else raises ValueError
int(s) ==
    LET t == Strip(s)
        signed == t # <<>> /\ t[1] \in {"+", "-"}
        digits == IF signed THEN Tail(t) ELSE t
        numeric == digits # <<>>
                   /\ \A k \in DOMAIN digits : \E d \in DOMAIN Digits : Digits[d] = digits[k]
    IN IF ~numeric THEN [raises |-> TRUE, value |-> 0]
       ELSE [raises |-> FALSE,
             value |-> IF signed /\ t[1] = "-" THEN 0 - DecimalValue(digits)
                       ELSE DecimalValue(digits)]

\* str(n) of the f-string of line 472, n >= 0
RECURSIVE str(_)
str(n) ==
    IF n < 10 THEN <<Digits[n + 1]>> ELSE str(n \div 10) \o <<Digits[(n % 10) + 1]>>

\* needle occurs in hay
Substring(needle, hay) ==
    \E k \in 0 .. Len(hay) - Len(needle) : Slice(hay, k, k + Len(needle)) = needle

\* `field_name in current', lines 521: a key of a dict, a substring of a
\* str, an element of a list; other values are not iterable
In(field_name, current) ==
    CASE current.type = "dict" ->
             [raises |-> FALSE, value |-> field_name \in DOMAIN current.value]
      [] current.type = "str" ->
             [raises |-> FALSE, value |-> Substring(field_name, current.value)]
      [] current.type = "list" ->
             [raises |-> FALSE,
              value |-> \E k \in DOMAIN current.value :
                            /\ current.value[k].type = "str"
                            /\ current.value[k].value = field_name]
      [] OTHER -> [raises |-> TRUE, value |-> FALSE]

\* the outcomes of a step of _get_nested_value
Continue(v) == [outcome |-> "continue", value |-> v]
ReturnNone == [outcome |-> "return", value |-> PyNone]
RaiseTypeError == [outcome |-> "TypeError", value |-> PyNone]

\* line 517
IsIndexed(part) ==
    /\ \E k \in DOMAIN part : part[k] = "["
    /\ part[Len(part)] = "]"

\* lines 518-531: a part like items[0]
IndexedAccess(current, part) ==
    LET field_name == split(part, "[")[1]
        index_str == rstrip(split(part, "[")[2], "]")
        has == In(field_name, current)
    IN IF has.raises THEN RaiseTypeError
       ELSE IF ~has.value THEN ReturnNone
       ELSE IF current.type # "dict" THEN RaiseTypeError
       ELSE IF current.value[field_name].type # "list" THEN ReturnNone
       ELSE LET items == current.value[field_name].value
                index == int(index_str)
            IN IF index.raises THEN ReturnNone
               ELSE IF 0 <= index.value /\ index.value < Len(items)
                    THEN Continue(items[index.value + 1])
                    ELSE ReturnNone

\* lines 533-537
FieldAccess(current, part) ==
    IF current.type = "dict" /\ part \in DOMAIN current.value
    THEN Continue(current.value[part])
    ELSE ReturnNone

\* the loop of line 515 from the k-th part
RECURSIVE ResolveFrom(_, _, _)
ResolveFrom(current, parts, k) ==
    IF k > Len(parts) THEN [raises |-> FALSE, value |-> current]
    ELSE LET step == IF IsIndexed(parts[k]) THEN IndexedAccess(current, parts[k])
                     ELSE FieldAccess(current, parts[k])
         IN CASE step.outcome = "continue" -> ResolveFrom(step.value, parts, k + 1)
              [] step.outcome = "return" -> [raises |-> FALSE, value |-> PyNone]
              [] OTHER -> [raises |-> TRUE, value |-> PyNone]

\* _get_nested_value, lines 505-539
get_nested_value(obj, path) ==
    IF path = <<>> THEN [raises |-> FALSE, value |-> PyNone]
    ELSE ResolveFrom(obj, split(path, "."), 1)

(***************************************************************************)
(* Inputs of chunk_structured_document: the documents, the top-level text  *)
(* fields, the nested paths and the array fields of a call.                *)
(***************************************************************************)
Unknown == <<"u", "n", "k", "n", "o", "w", "n">>

IdKey == <<"i", "d">>
TypeKey == <<"t", "y", "p", "e">>

\* the passthrough fields of line 437, with the metadata key of each
MetaFields ==
    <<[key |-> "name", field |-> <<"n", "a", "m", "e">>],
      [key |-> "title", field |-> <<"t", "i", "t", "l", "e">>],
      [key |-> "created_at",
       field |-> <<"c", "r", "e", "a", "t", "e", "d", "_", "a", "t">>],
      [key |-> "updated_at",
       field |-> <<"u", "p", "d", "a", "t", "e", "d", "_", "a", "t">>],
      [key |-> "author", field |-> <<"a", "u", "t", "h", "o", "r">>]>>

\* {"id": "d", "t": "a. A", "m": {"t": "a"}, "s": "l", "n": 5,
\*  "l": ["A", {"id": "e", "t": "a"}, {"t": ""}, {"t": "a."}]}
RecordDocument ==
    PyDict((IdKey :> PyStr(<<"d">>))
           @@ (<<"t">> :> PyStr(<<"a", ".", " ", "A">>))
           @@ (<<"m">> :> PyDict((<<"t">> :> PyStr(<<"a">>))))
           @@ (<<"s">> :> PyStr(<<"l">>))
           @@ (<<"n">> :> PyInt(5))
           @@ (<<"l">> :> PyList(<<PyStr(<<"A">>),
                                   PyDict((IdKey :> PyStr(<<"e">>))
                                          @@ (<<"t">> :> PyStr(<<"a">>))),
                                   PyDict((<<"t">> :> PyStr(<<>>))),
                                   PyDict((<<"t">> :> PyStr(<<"a", ".">>)))>>)))

\* {"type": "w", "name": "A", "t": " ", "m": {"t": "A"}, "s": "l",
\*  "l": ["a.", {"id": 7, "t": "a"}]}
PageDocument ==
    PyDict((TypeKey :> PyStr(<<"w">>))
           @@ (<<"n", "a", "m", "e">> :> PyStr(<<"A">>))
           @@ (<<"t">> :> PyStr(<<" ">>))
           @@ (<<"m">> :> PyDict((<<"t">> :> PyStr(<<"A">>))))
           @@ (<<"s">> :> PyStr(<<"l">>))
           @@ (<<"l">> :> PyList(<<PyStr(<<"a", ".">>),
                                   PyDict((IdKey :> PyInt(7))
                                          @@ (<<"t">> :> PyStr(<<"a">>)))>>)))

DocumentNames == {"record", "page"}

Document(name) == IF name = "record" THEN RecordDocument ELSE PageDocument

\* text_fields: one field the documents have, one they lack
TextFields == <<<<"t">>, <<"x">>>>

\* a path that resolves in every document
GoodNestedPath == <<"m", ".", "t">>

\* nested paths, with what stops their resolution in the documents: a
\* missing key, an intermediate value that is neither map nor array, an
\* index out of range, a non-numeric index
NestedPaths ==
    {[path |-> GoodNestedPath, failure |-> "none"],
     [path |-> <<"l", "[", "1", "]", ".", "t">>, failure |-> "none"],
     [path |-> <<"m", ".", "x">>, failure |-> "missing key"],
     [path |-> <<"t", ".", "x">>, failure |-> "not a map or array"],
     [path |-> <<"s", ".", "l", "[", "0", "]">>, failure |-> "not a map or array"],
     [path |-> <<"l", "[", "9", "]", ".", "t">>, failure |-> "index out of range"],
     [path |-> <<"l", "[", "x", "]", ".", "t">>, failure |-> "non-numeric index"]}

\* nested_text_fields: one of the paths, then the path that resolves
NestedTextFields == {<<p.path, GoodNestedPath>> : p \in NestedPaths}

ArrayPath == <<"l">>

\* array_fields: a missing field, a field that is no list or a path through
\* a str, then the list
ArrayFields ==
    {<<<<"x">>, ArrayPath>>, <<<<"m">>, ArrayPath>>,
     <<<<"s", ".", "l", "[", "0", "]">>, ArrayPath>>}

\* the text chunker of the StructuredChunker
WalkConfigs ==
    [target_chunk_size : {1}, min_chunk_size : {1}, max_chunk_size : {MaxSize},
     overlap_size : {0}, smart_overlap : BOOLEAN]

(***************************************************************************)
(* chunk_structured_document, lines 407-503.  A step is one iteration of   *)
(* one of its loops up to the chunk_text call it makes, or the statements  *)
(* after that call; the call itself runs as the SmartChunker steps.        *)
(***************************************************************************)
\* document.get(key, "unknown")
GetOrUnknown(document, key) ==
    IF key \in DOMAIN document THEN document[key] ELSE PyStr(Unknown)

\* lines 430-434, 452-456
FieldMetadata(document, field_path) ==
    [doc_id |-> GetOrUnknown(document, IdKey),
     doc_type |-> GetOrUnknown(document, TypeKey),
     field_path |-> field_path]

\* lines 437-439
Passthrough(document) ==
    LET present == {k \in DOMAIN MetaFields : MetaFields[k].field \in DOMAIN document}
    IN [key \in {MetaFields[k].key : k \in present} |->
           document[MetaFields[CHOOSE k \in present : MetaFields[k].key = key].field]]

\* f"{array_field}[{i}]", line 472
ItemPath(array_field, i) == array_field \o <<"[">> \o str(i) \o <<"]">>

ItemMetadataWithoutId(document, array_field, i, item, subfield) ==
    DictUpdate(FieldMetadata(document, ItemPath(array_field, i) \o <<".">> \o subfield),
               [array_index |-> i])

\* lines 489-498
ItemMetadata(document, array_field, i, item, subfield) ==
    DictUpdate(
        DictUpdate(FieldMetadata(document,
                                 ItemPath(array_field, i) \o <<".">> \o subfield),
                   [array_index |-> i]),
        IF IdKey \in DOMAIN item THEN [item_id |-> item[IdKey]] ELSE NoMetadata)

\* lines 477-482
StringItemMetadata(document, array_field, i) ==
    DictUpdate(FieldMetadata(document, ItemPath(array_field, i)), [array_index |-> i])

\* the walk after the current iteration of loop w.pc has ended: the next
\* iteration of that loop, or of the loop around it, or the return of
\* all_chunks (line 503)
RECURSIVE Advance(_)
Advance(w) ==
    CASE w.pc = "text_fields" ->
             IF w.field < Len(TextFields) THEN [w EXCEPT !.field = @ + 1]
             ELSE IF w.nested_text_fields # <<>>
                  THEN [w EXCEPT !.pc = "nested", !.field = 1]
                  ELSE Advance([w EXCEPT !.pc = "nested", !.field = 0])
      [] w.pc = "nested" ->
             IF w.field < Len(w.nested_text_fields) THEN [w EXCEPT !.field = @ + 1]
             ELSE IF w.array_fields # <<>>
                  THEN [w EXCEPT !.pc = "arrays", !.field = 1]
                  ELSE [w EXCEPT !.pc = "returned", !.field = 0]
      [] w.pc = "arrays" ->
             IF w.field < Len(w.array_fields)
             THEN [w EXCEPT !.field = @ + 1, !.array_value = <<>>, !.i = 0]
             ELSE [w EXCEPT !.pc = "returned", !.array_value = <<>>, !.i = 0]
      [] w.pc = "items" ->
             IF w.i + 1 < Len(w.array_value) THEN [w EXCEPT !.i = @ + 1, !.subfield = 1]
             ELSE Advance([w EXCEPT !.pc = "arrays", !.subfield = 1])
      [] w.pc = "subfields" ->
             IF w.subfield < Len(TextFields) THEN [w EXCEPT !.subfield = @ + 1]
             ELSE Advance([w EXCEPT !.pc = "items"])
      [] OTHER -> w

walkLocals == <<text, split_points, current_start, best_end, chunks, spans, result>>

\* the walk goes on without a chunk_text call
WalkOn(w) ==
    /\ walker' = w
    /\ UNCHANGED <<raw, metadata, pc, walkLocals>>

\* self.text_chunker.chunk_text(value, md): line 75 raises AttributeError
\* when value is truthy and has no strip()
CallChunkText(value, md) ==
    IF value.type # "str"
    THEN WalkOn([walker EXCEPT !.pc = "raised"])
    ELSE /\ raw' = value.value
         /\ metadata' = md
         /\ pc' = "call"
         /\ text' = <<>>
         /\ split_points' = <<>>
         /\ current_start' = 0
         /\ best_end' = 0
         /\ chunks' = <<>>
         /\ spans' = <<>>
         /\ result' = <<>>
         /\ walker' = [walker EXCEPT !.pc = "in_call", !.resume = walker.pc]

walkFixed == <<self, configured, callers, sched, ctor, earlier>>

\* lines 427-442, one top-level field
WalkTextField ==
    /\ walker.pc = "text_fields"
    /\ LET document == Document(walker.document).value
           field == TextFields[walker.field]
       IN IF field \in DOMAIN document /\ Truth(document[field])
          THEN CallChunkText(document[field],
                             DictUpdate(FieldMetadata(document, field),
                                        Passthrough(document)))
          ELSE WalkOn(Advance(walker))
    /\ UNCHANGED walkFixed

\* lines 446-459, one nested path
WalkNestedField ==
    /\ walker.pc = "nested"
    /\ LET document == Document(walker.document)
           nested_path == walker.nested_text_fields[walker.field]
           value == get_nested_value(document, nested_path)
       IN IF value.raises THEN WalkOn([walker EXCEPT !.pc = "raised"])
          ELSE IF Truth(value.value) /\ value.value.type = "str"
               THEN CallChunkText(value.value,
                                  FieldMetadata(document.value, nested_path))
               ELSE WalkOn(Advance(walker))
    /\ UNCHANGED walkFixed

\* lines 463-467, one array field
WalkArrayField ==
    /\ walker.pc = "arrays"
    /\ LET array_value == get_nested_value(Document(walker.document),
                                           walker.array_fields[walker.field])
       IN IF array_value.raises THEN WalkOn([walker EXCEPT !.pc = "raised"])
          ELSE IF Truth(array_value.value) /\ array_value.value.type = "list"
               THEN WalkOn([walker EXCEPT !.pc = "items", !.i = 0,
                                          !.array_value = array_value.value.value])
               ELSE WalkOn(Advance(walker))
    /\ UNCHANGED walkFixed

\* lines 469-484, one element of the array: the test of line 475 is made
\* inside the branch of line 470
WalkItem ==
    /\ walker.pc = "items"
    /\ LET item == walker.array_value[walker.i + 1]
       IN IF item.type = "dict"
          THEN IF item.type = "str"
               THEN CallChunkText(item,
                                  StringItemMetadata(Document(walker.document).value,
                                                     walker.array_fields[walker.field],
                                                     walker.i))
               ELSE WalkOn([walker EXCEPT !.pc = "subfields", !.subfield = 1])
          ELSE WalkOn(Advance(walker))
    /\ UNCHANGED walkFixed

\* lines 487-500, one text field of an object element
WalkSubfield ==
    /\ walker.pc = "subfields"
    /\ LET item == walker.array_value[walker.i + 1].value
           subfield == TextFields[walker.subfield]
       IN IF subfield \in DOMAIN item /\ Truth(item[subfield])
          THEN CallChunkText(item[subfield],
                             ItemMetadata(Document(walker.document).value,
                                          walker.array_fields[walker.field],
                                          walker.i, item, subfield))
          ELSE WalkOn(Advance(walker))
    /\ UNCHANGED walkFixed

\* lines 443, 460, 484, 501: all_chunks.extend(chunks)
WalkExtend ==
    /\ walker.pc = "in_call"
    /\ pc = "done"
    /\ WalkOn(Advance([walker EXCEPT !.pc = walker.resume,
                                     !.all_chunks = @ \o result]))
    /\ UNCHANGED walkFixed

WalkNext ==
    \/ WalkTextField
    \/ WalkNestedField
    \/ WalkArrayField
    \/ WalkItem
    \/ WalkSubfield
    \/ WalkExtend

StructuredInit ==
    /\ self \in WalkConfigs
    /\ configured = self
    /\ ctor = Constructed("SmartChunker", self)
    /\ walker \in [pc : {"text_fields"}, document : DocumentNames,
                   nested_text_fields : NestedTextFields, array_fields : ArrayFields,
                   field : {1}, i : {0}, subfield : {1}, array_value : {<<>>},
                   resume : {"text_fields"}, all_chunks : {<<>>}]
    /\ raw = <<>>
    /\ metadata = NoMetadata
    /\ pc = "unused"
    /\ text = <<>>
    /\ split_points = <<>>
    /\ current_start = 0
    /\ best_end = 0
    /\ chunks = <<>>
    /\ spans = <<>>
    /\ result = <<>>
    /\ callers = <<>>
    /\ sched = [running |-> 1, preemptions |-> 0]
    /\ earlier = <<>>

StructuredSpec == StructuredInit /\ [][WalkNext \/ SmartNext]_vars

(***************************************************************************)
(* Several chunk_text calls, one after the other, on one SmartChunker.     *)
(***************************************************************************)
RepeatTexts == {<<" ">>, <<"a">>, <<"a", ".", " ", "A">>}

RepeatConfigs ==
    [target_chunk_size : 1 .. MaxSize, min_chunk_size : {1},
     max_chunk_size : {MaxSize}, overlap_size : 0 .. MaxOverlap,
     smart_overlap : BOOLEAN]

\* the caller takes the list the call returned and calls chunk_text again,
\* line 64, with a text of its choice
ChunkTextAgain ==
    /\ pc = "done"
    /\ walker = NoWalk
    /\ Len(earlier) + 1 < MaxCalls
    /\ earlier' = Append(earlier, [raw |-> raw, metadata |-> metadata,
                                   result |-> result])
    /\ raw' \in RepeatTexts
    /\ metadata' = NoMetadata
    /\ pc' = "call"
    /\ text' = <<>>
    /\ split_points' = <<>>
    /\ current_start' = 0
    /\ best_end' = 0
    /\ chunks' = <<>>
    /\ spans' = <<>>
    /\ result' = <<>>
    /\ UNCHANGED <<self, configured, callers, sched, ctor, walker>>

RepeatInit == SmartStart(RepeatTexts) /\ self \in RepeatConfigs

RepeatSpec == RepeatInit /\ [][SmartNext \/ ChunkTextAgain]_vars

(***************************************************************************)
(* A SmartChunker call whose overlap window can span several boundaries.   *)
(***************************************************************************)
WideOverlapTexts == {<<" ">>, <<"a">>, <<"a", ".", " ", "A">>,
                     <<".", " ", ".", " ", "A">>,
                     <<"a", " ", "-", " ", "a", ".", " ", "A">>}

WideOverlapConfigs ==
    [target_chunk_size : 1 .. MaxSize + 1, min_chunk_size : {1},
     max_chunk_size : MaxSize .. MaxSize + 1,
     overlap_size : 0 .. MaxOverlap + 3, smart_overlap : BOOLEAN]

WideOverlapInit ==
    /\ self \in WideOverlapConfigs
    /\ configured = self
    /\ raw \in WideOverlapTexts
    /\ metadata = NoMetadata
    /\ pc = "call"
    /\ text = <<>>
    /\ split_points = <<>>
    /\ current_start = 0
    /\ best_end = 0
    /\ chunks = <<>>
    /\ spans = <<>>
    /\ result = <<>>
    /\ callers = <<>>
    /\ sched = [running |-> 1, preemptions |-> 0]
    /\ ctor = Constructed("SmartChunker", self)
    /\ walker = NoWalk
    /\ earlier = <<>>

WideOverlapSpec == WideOverlapInit /\ [][SmartNext]_vars

\* one call at a time: a SmartChunker call, or a HierarchicalChunker call
SmartInit == SmartStart(Texts)
HierInit == HierStart({1}, HierTexts)

Init == SmartInit \/ HierInit
Next == SmartNext \/ HierNext

Spec == Init /\ [][Next]_vars

\* A SmartChunker call on one of a few texts; a call that can take a step
\* takes it sooner or later.
TerminationTexts == {<<>>, <<" ">>, <<"a">>, <<"a", "a", "a">>,
                     <<"a", ".", " ", "A">>, <<"a", " ", "-", " ", "a">>}

FairSpec == SmartStart(TerminationTexts) /\ [][SmartNext]_vars /\ WF_vars(SmartNext)

\* two chunk_text calls running concurrently on one HierarchicalChunker
ConcurrentInit == HierStart({1, 2}, ConcurrentTexts)

ConcurrentSpec == ConcurrentInit /\ [][HierNext]_vars

(***************************************************************************)
(* Properties.                                                             *)
(***************************************************************************)
PassReturned == pc = "done" /\ ~IsBlank(raw)

\* C1: a SmartChunker.chunk_text call on any text, with any valid
\* configuration, returns after finitely many iterations of the loop of
\* _create_chunks.
C1_ChunkTextTerminates == (pc = "call" /\ ValidConfig(self)) ~> (pc = "done")

\* C2: in every iteration of the loop of _create_chunks, under both overlap
\* policies, next_start is strictly greater than the iteration's
\* current_start.
C2_NextStartAdvances ==
    \A k \in DOMAIN spans : spans[k].next_start > spans[k].start

\* the chunks cut from the spans from the k-th on, as _create_chunks appends them
RECURSIVE CutFrom(_, _, _)
CutFrom(s, sp, k) ==
    IF k > Len(sp) THEN <<>>
    ELSE (IF sp[k].emitted THEN <<Strip(Slice(s, sp[k].start, sp[k].end))>>
          ELSE <<>>) \o CutFrom(s, sp, k + 1)

\* C3: the spans of a pass that returned cover the normalized text: the
\* first starts at 0, each following one starts at the previous next_start,
\* at or before the previous end, the last ends at len(text); the returned
\* chunks are the trimmed texts of the spans, in order, and every character
\* that is not whitespace lies in a span whose chunk was kept.
C3_SpansCoverText ==
    PassReturned =>
        /\ spans # <<>>
        /\ spans[1].start = 0
        /\ \A k \in 2 .. Len(spans) :
               /\ spans[k].start = spans[k - 1].next_start
               /\ spans[k].start <= spans[k - 1].end
        /\ spans[Len(spans)].end = Len(text)
        /\ chunks = CutFrom(text, spans, 1)
        /\ \A i \in 0 .. Len(text) - 1 :
               ~IsSpace(At(text, i)) =>
                   \E k \in DOMAIN spans :
                       spans[k].emitted /\ spans[k].start <= i /\ i < spans[k].end

\* a pass returned several chunks, two of which share a region
C3_Witness ==
    /\ PassReturned
    /\ Len(chunks) >= 2
    /\ \E k \in 2 .. Len(spans) : spans[k].start < spans[k - 1].end

\* C4: the region [next_start, end) that an iteration's span shares with
\* the next span is never longer than overlap_size, under both overlap
\* policies.
C4_OverlapBounded ==
    \A k \in DOMAIN spans : spans[k].end - spans[k].next_start <= self.overlap_size

\* two consecutive chunks cut with smart overlap share a region of exactly
\* overlap_size > 0 characters
C4_Witness ==
    /\ self.smart_overlap
    /\ self.overlap_size > 0
    /\ \E k \in 1 .. Len(spans) - 1 :
           /\ spans[k].emitted /\ spans[k + 1].emitted
           /\ spans[k].end - spans[k].next_start = self.overlap_size

C6_IndicesContiguous ==
    pc = "done" =>
        \A k \in DOMAIN result :
            result[k].chunk_index = k - 1 /\ result[k].total_chunks = Len(result)

\* C7: every span [start, end) a chunk is cut from satisfies
\* 0 <= start < end <= len(text), whichever way _find_best_end_point chose
\* the end.
C7_SpanWithinText ==
    /\ \A k \in DOMAIN spans :
           0 <= spans[k].start /\ spans[k].start < spans[k].end
           /\ spans[k].end <= Len(text)
    /\ pc = "emit" =>
           0 <= current_start /\ current_start < best_end /\ best_end <= Len(text)

\* _find_best_end_point fell back, under a valid configuration, to
\* start + max_chunk_size, before the next split point
C7_Witness ==
    /\ pc = "emit"
    /\ ValidConfig(self)
    /\ LET valid == valid_end_points(split_points, current_start)
       IN /\ ScanCandidates(text, current_start, valid, self, 1) = <<>>
          /\ best_end = current_start + self.max_chunk_size
          /\ best_end < valid[1]

\* C8: for a text no longer than max_chunk_size with no boundary inside,
\* chunk_text returns exactly one chunk, the trimmed text.
C8_ShortTextOneChunk ==
    (/\ PassReturned
     /\ Len(raw) <= self.max_chunk_size
     /\ split_points = <<0, Len(text)>>)
    => Len(result) = 1 /\ result[1].text = Strip(raw)

\* C9: chunk_text on an empty or whitespace-only text never enters a
\* chunking loop and returns the empty list, for a SmartChunker call and
\* for every level pass (and the result) of a HierarchicalChunker call.
C9_BlankTextNoChunks ==
    IsBlank(raw) =>
        /\ pc \in {"call", "done", "unused"}
        /\ chunks = <<>> /\ result = <<>>
        /\ \A t \in DOMAIN callers :
               /\ callers[t].all_chunks = <<>>
               /\ callers[t].pc \notin {"loop", "emit"}
               /\ callers[t].chunks = <<>>
               /\ callers[t].last_pass.level >= 0 =>
                      /\ callers[t].last_pass.returned
                      /\ callers[t].last_pass.level_chunks = 0

\* a HierarchicalChunker call returned after running every level pass on a
\* whitespace-only text
C9_Witness ==
    /\ raw # <<>>
    /\ IsBlank(raw)
    /\ \E t \in DOMAIN callers :
           callers[t].pc = "returned" /\ callers[t].last_pass.level = self.levels - 1

\* C10: with two chunk_text calls running concurrently on one
\* HierarchicalChunker, every level-L pass of every call runs with
\* target_chunk_size = int(base_target * multiplier^L) and
\* max_chunk_size = int(base_max * multiplier^L) of the configured sizes.
C10_PassesUseOwnSizes ==
    \A t \in DOMAIN callers :
        LET ran == callers[t].last_pass
        IN ran.level >= 0 =>
               /\ ran.target_chunk_size =
                      Scaled(configured.target_chunk_size,
                             configured.level_size_multiplier, ran.level)
               /\ ran.max_chunk_size =
                      Scaled(configured.max_chunk_size,
                             configured.level_size_multiplier, ran.level)

\* the level pass of caller t is inside SmartChunker.chunk_text
InPass(t) == callers[t].pc \in {"loop", "emit"}

\* C11: in one sequential HierarchicalChunker.chunk_text call, the sizes
\* computed for level L and the sizes the instance holds during the pass of
\* level L are int(base * multiplier^L) of the configured base sizes (not of
\* the previous level's sizes), 100, 250 and 625 for a base of 100 with the
\* multiplier 2.5, and min_chunk_size and overlap_size are the configured
\* ones in every pass.
C11_LevelSizesFromBase ==
    /\ <<Scaled(100, DefaultMultiplier, 0), Scaled(100, DefaultMultiplier, 1),
         Scaled(100, DefaultMultiplier, 2)>> = <<100, 250, 625>>
    /\ \A t \in DOMAIN callers :
           LET level == callers[t].level
               target == Scaled(configured.target_chunk_size,
                                configured.level_size_multiplier, level)
               max == Scaled(configured.max_chunk_size,
                             configured.level_size_multiplier, level)
           IN /\ callers[t].pc \in {"save_target", "save_max", "set_target", "set_max"}
                  => callers[t].level_target_size = target
                     /\ callers[t].level_max_size = max
              /\ (callers[t].pc = "pass" \/ InPass(t))
                  => /\ self.target_chunk_size = target
                     /\ self.max_chunk_size = max
                     /\ self.min_chunk_size = configured.min_chunk_size
                     /\ self.overlap_size = configured.overlap_size
                     /\ level \in 0 .. self.levels - 1

\* the pass of level 2 of a call with base target 1 cuts a chunk with target
\* int(1 * 2.5^2) = 6, where scaling the previous level's int(1 * 2.5) = 2
\* would give 5
C11_Witness ==
    \E t \in DOMAIN callers :
        /\ callers[t].level = 2
        /\ callers[t].pc = "emit"
        /\ configured.target_chunk_size = 1
        /\ self.target_chunk_size = 6

\* C12: every chunk in the all_chunks of a HierarchicalChunker.chunk_text
\* call carries a level in 0..levels-1 and is_hierarchical = true, carries
\* is_summary = true exactly when its level > 0, and the chunks are in
\* increasing level order.
C12_LevelTags ==
    \A t \in DOMAIN callers :
        LET all_chunks == callers[t].all_chunks
        IN /\ \A k \in DOMAIN all_chunks :
                  LET chunk == all_chunks[k]
                  IN /\ {"level", "is_hierarchical"} \subseteq DOMAIN chunk
                     /\ chunk.level \in 0 .. self.levels - 1
                     /\ chunk.is_hierarchical = TRUE
                     /\ ("is_summary" \in DOMAIN chunk /\ chunk.is_summary = TRUE)
                        <=> chunk.level > 0
           /\ \A j, k \in DOMAIN all_chunks :
                  j < k => all_chunks[j].level <= all_chunks[k].level

\* the configuration a constructor call asks for: the defaults, with the
\* keyword arguments written over them
Requested(kwargs) ==
    DictUpdate(DictUpdate(SmartDefaults,
                          [levels |-> DefaultLevels,
                           level_size_multiplier |-> DefaultMultiplier]),
               kwargs)

\* C13: HierarchicalChunker(**kwargs) with recognized options, `levels'
\* and/or `level_size_multiplier' among them, returns an instance whose
\* levels and level_size_multiplier are the given ones (3 and 2.5 when
\* omitted), and a chunk_text call on it returns after the pass of level
\* levels - 1.
C13_HierOptionsAccepted ==
    (/\ ctor.class = "HierarchicalChunker"
     /\ ctor.outcome # "called"
     /\ Requested(ctor.kwargs).levels >= 1)
    => /\ ctor.outcome = "returned"
       /\ self.levels = Requested(ctor.kwargs).levels
       /\ self.level_size_multiplier = Requested(ctor.kwargs).level_size_multiplier
       /\ \A t \in DOMAIN callers :
              callers[t].pc = "returned" =>
                  callers[t].last_pass.level = self.levels - 1

Malformed(class, c) ==
    \/ c.min_chunk_size > c.max_chunk_size
    \/ class = "HierarchicalChunker" /\ c.levels < 1

\* C14: a constructor call whose configuration has
\* min_chunk_size > max_chunk_size, or levels < 1 for the hierarchical
\* chunker, does not return an instance, and no chunking pass runs with
\* such a configuration.
C14_MalformedRejected ==
    Malformed(ctor.class, Requested(ctor.kwargs)) =>
        /\ ctor.outcome # "returned"
        /\ pc \notin {"call", "loop", "emit", "done"}
        /\ \A t \in DOMAIN callers : ~InPass(t)

\* the chunks of all_chunks cut for the path field_path
ChunksOf(field_path) ==
    {k \in DOMAIN walker.all_chunks : walker.all_chunks[k].field_path = field_path}

\* the paths of the call whose resolution fails at some step
FailingPaths ==
    {p.path : p \in {q \in NestedPaths : q.failure # "none"}}
    \cup {<<"x">>, <<"s", ".", "l", "[", "0", "]">>}

\* C15: whichever nested path or array-field path of the call fails to
\* resolve (missing key, intermediate value that is neither map nor array,
\* index out of range, non-numeric index), chunk_structured_document raises
\* no error, produces no chunk for that path, and returns the chunks of the
\* other nested path and of the array field.
C15_FailedPathsSkipped ==
    /\ walker.pc # "raised"
    /\ \A path \in FailingPaths : ChunksOf(path) = {}
    /\ walker.pc = "returned" =>
           /\ ChunksOf(GoodNestedPath) # {}
           /\ \E k \in DOMAIN walker.all_chunks :
                  "array_index" \in DOMAIN walker.all_chunks[k]

\* the elements of the array field of the documents
ArrayItems == Document(walker.document).value[ArrayPath].value

\* C16: once chunk_structured_document has returned, every element of the
\* array field that is a bare non-empty string, at index i, has a chunk in
\* all_chunks with array_index = i and field_path "<array_field>[i]".
C16_StringElementsChunked ==
    walker.pc = "returned" =>
        \A i \in 0 .. Len(ArrayItems) - 1 :
            (ArrayItems[i + 1].type = "str" /\ ~IsBlank(ArrayItems[i + 1].value))
            => \E k \in DOMAIN walker.all_chunks :
                   LET chunk == walker.all_chunks[k]
                   IN /\ "array_index" \in DOMAIN chunk
                      /\ chunk.array_index = i
                      /\ chunk.field_path = ArrayPath \o <<"[", Digits[i + 1], "]">>

\* "<array_field>[i].<subfield>"
SubfieldPath(i, subfield) ==
    ArrayPath \o <<"[", Digits[i + 1], "]", ".">> \o subfield

\* C17: every chunk cut from an element of the array field comes from an
\* object element at its array_index i and a configured text field present
\* and non-empty in it, has field_path "<array_field>[i].<subfield>", and
\* has item_id, equal to the element's id, exactly when the element has an
\* id; once the call has returned every such subfield has its chunks.
C17_ObjectElementsChunked ==
    /\ \A k \in DOMAIN walker.all_chunks :
           LET chunk == walker.all_chunks[k]
           IN "array_index" \in DOMAIN chunk =>
                  /\ chunk.array_index \in 0 .. Len(ArrayItems) - 1
                  /\ LET item == ArrayItems[chunk.array_index + 1]
                     IN /\ item.type = "dict"
                        /\ \E f \in DOMAIN TextFields :
                               /\ TextFields[f] \in DOMAIN item.value
                               /\ Truth(item.value[TextFields[f]])
                               /\ chunk.field_path =
                                      SubfieldPath(chunk.array_index, TextFields[f])
                        /\ "item_id" \in DOMAIN chunk <=> IdKey \in DOMAIN item.value
                        /\ "item_id" \in DOMAIN chunk =>
                               chunk.item_id = item.value[IdKey]
    /\ walker.pc = "returned" =>
           \A i \in 0 .. Len(ArrayItems) - 1 : \A f \in DOMAIN TextFields :
               LET item == ArrayItems[i + 1]
               IN (/\ item.type = "dict"
                   /\ TextFields[f] \in DOMAIN item.value
                   /\ Truth(item.value[TextFields[f]]))
                  => \E k \in ChunksOf(SubfieldPath(i, TextFields[f])) :
                         /\ "array_index" \in DOMAIN walker.all_chunks[k]
                         /\ walker.all_chunks[k].array_index = i

\* a call returned chunks of an object element with an id and of one without,
\* and none for an object element whose text field is empty
C17_Witness ==
    /\ walker.pc = "returned"
    /\ \E j, k \in DOMAIN walker.all_chunks :
           /\ "item_id" \in DOMAIN walker.all_chunks[j]
           /\ "array_index" \in DOMAIN walker.all_chunks[k]
           /\ "item_id" \notin DOMAIN walker.all_chunks[k]
    /\ \E i \in 0 .. Len(ArrayItems) - 1 :
           /\ ArrayItems[i + 1].type = "dict"
           /\ \A k \in DOMAIN walker.all_chunks :
                  "array_index" \in DOMAIN walker.all_chunks[k]
                  => walker.all_chunks[k].array_index # i

\* the calls that have returned: the earlier ones and, once it has
\* returned, the current one
ReturnedCalls ==
    earlier \o (IF pc = "done"
                THEN <<[raw |-> raw, metadata |-> metadata, result |-> result]>>
                ELSE <<>>)

Candidates ==
    ScanCandidates(text, current_start,
                   valid_end_points(split_points, current_start), self, 1)

\* 1000 * target_chunk_size * (0.7 * size_score + 0.3 * boundary_score) of a
\* candidate, size_score = 1 - |token_count - target| / target
Combined(cand) ==
    700 * (self.target_chunk_size - Abs(cand.token_count - self.target_chunk_size))
    + 30 * calculate_boundary_score(text, cand.end) * self.target_chunk_size

\* C19: when _find_best_end_point has candidates, the end it returns is the
\* candidate of highest combined score 0.7 * size_score + 0.3 *
\* boundary_score (size_score unclamped), the one of smallest offset among
\* those of equal score, a split point and greater than start.
C19_BestScoreWins ==
    (pc = "emit" /\ Candidates # <<>>) =>
        /\ \E k \in DOMAIN Candidates :
               /\ Candidates[k].end = best_end
               /\ \A j \in DOMAIN Candidates :
                      /\ Combined(Candidates[j]) <= Combined(Candidates[k])
                      /\ Combined(Candidates[j]) = Combined(Candidates[k])
                         => Candidates[j].end >= best_end
        /\ \E k \in DOMAIN split_points : split_points[k] = best_end
        /\ best_end > current_start

\* _find_best_end_point returned the earlier of two candidates that share
\* the highest score
C19_Witness ==
    /\ pc = "emit"
    /\ \E j, k \in DOMAIN Candidates :
           /\ j < k
           /\ Combined(Candidates[j]) = Combined(Candidates[k])
           /\ \A i \in DOMAIN Candidates :
                  Combined(Candidates[i]) <= Combined(Candidates[j])
           /\ best_end = Candidates[j].end

\* the token count of text[current_start:end]
TokensTo(end) == count_tokens(Slice(text, current_start, end))

\* C20: _find_best_end_point scores no end whose span has fewer than
\* min_chunk_size tokens and, as long as some split point after start
\* reaches min_chunk_size, returns an end that reaches it; only when none
\* does, it returns min(first split point after start, start +
\* max_chunk_size).
C20_MinSizeFilter ==
    LET valid == valid_end_points(split_points, current_start)
        reaching == {k \in DOMAIN valid : TokensTo(valid[k]) >= self.min_chunk_size}
    IN (pc = "emit" /\ valid # <<>>) =>
           /\ \A k \in DOMAIN Candidates :
                  Candidates[k].token_count >= self.min_chunk_size
           /\ reaching # {} =>
                  /\ TokensTo(best_end) >= self.min_chunk_size
                  /\ \E k \in reaching : valid[k] = best_end
           /\ reaching = {} =>
                  best_end = Min2(valid[1], current_start + self.max_chunk_size)

\* _find_best_end_point skipped a split point below min_chunk_size and
\* returned a later one that reaches it
C20_Witness ==
    LET valid == valid_end_points(split_points, current_start)
    IN /\ pc = "emit"
       /\ \E k \in DOMAIN valid :
              valid[k] < best_end /\ TokensTo(valid[k]) < self.min_chunk_size
       /\ TokensTo(best_end) >= self.min_chunk_size


\* C21: _find_best_end_point takes its candidates in increasing offset order
\* and stops at the first one whose span reaches max_chunk_size tokens: the
\* end it returns is never greater than the first split point after start
\* whose span has at least max_chunk_size tokens.
C21_StopsAtMax ==
    LET valid == valid_end_points(split_points, current_start)
    IN pc = "emit" =>
           \A k \in DOMAIN valid :
               TokensTo(valid[k]) >= self.max_chunk_size => best_end <= valid[k]


\* the boundary score, in tenths, of the catalogue patterns with a match in
\* s that starts at most `reach' characters from position: 1 - rank /
\* pattern_count for the lowest rank, 0.1 when there is none
ScoreOfNearest(s, position, reach) ==
    LET near == {p \in 0 .. PatternCount - 1 :
                    \E j \in DOMAIN finditer(p, s) :
                        Abs(finditer(p, s)[j] - position) <= reach}
    IN IF near = {} THEN 1
       ELSE LET rank == CHOOSE x \in near : \A y \in near : x <= y
            IN (10 * (PatternCount - rank)) \div PatternCount

\* C22: the boundary_score of every candidate end, end = len(text)
\* included, is 1 - rank / pattern_count for the strongest catalogue pattern
\* with a match within 3 characters of end (a distance of exactly 3
\* included), and 0.1 when no pattern matches in that window.
C22_BoundaryScore ==
    pc = "emit" =>
        \A k \in DOMAIN Candidates :
            calculate_boundary_score(text, Candidates[k].end)
                = ScoreOfNearest(text, Candidates[k].end, SnapDistance)


\* the offsets of [lo, hi) at which a match of some catalogue pattern starts
BoundariesIn(s, lo, hi) ==
    {i \in lo .. hi - 1 : \E p \in 0 .. PatternCount - 1 : MatchEnd(p, s, i) >= 0}

\* C23: with smart_overlap enabled, the next_start of every iteration lies
\* in the window [max(start, end - overlap_size), end) and, when a catalogue
\* pattern matches in the window, is the smallest offset of the window at
\* which any pattern matches, whatever the pattern's rank.
C23_EarliestBoundary ==
    self.smart_overlap =>
        \A k \in DOMAIN spans :
            LET overlap_start == Max2(spans[k].start, spans[k].end - self.overlap_size)
                found == BoundariesIn(text, overlap_start, spans[k].end)
            IN overlap_start < spans[k].end =>
                   /\ overlap_start <= spans[k].next_start
                   /\ spans[k].next_start < spans[k].end
                   /\ found # {} =>
                          \A i \in found : spans[k].next_start <= i
                   /\ found # {} => spans[k].next_start \in found


\* C24: with smart_overlap disabled, every iteration of the loop of
\* _create_chunks sets next_start = max(start + 1, end - overlap_size), the
\* starts of the spans increase strictly, and a pass over a text of length
\* n returns after at most n iterations.
C24_SimpleOverlapAdvances ==
    /\ [](~self.smart_overlap =>
            /\ \A k \in DOMAIN spans :
                   spans[k].next_start =
                       Max2(spans[k].start + 1, spans[k].end - self.overlap_size)
            /\ \A k \in 2 .. Len(spans) : spans[k - 1].start < spans[k].start
            /\ Len(spans) <= Len(text))
    /\ (pc = "call" /\ ~self.smart_overlap) ~> (pc = "done")

\* a pass with simple overlap returned after exactly len(text) iterations,
\* on a text of several characters
C24_Witness ==
    /\ pc = "done"
    /\ ~self.smart_overlap
    /\ Len(text) >= 2
    /\ Len(spans) = Len(text)


\* the offsets at which re.finditer reports a match of some catalogue pattern
MatchStarts(s) ==
    UNION {SeqRange(finditer(p, s)) : p \in 0 .. PatternCount - 1}

\* C25: the list _find_split_points returns is strictly increasing, begins
\* with 0 and ends with len(text), and its other offsets are exactly the
\* offsets where a match of some catalogue pattern starts.
C25_SplitPointsSorted ==
    pc \in {"loop", "emit", "done"} /\ ~IsBlank(raw) =>
        /\ \A k \in 2 .. Len(split_points) : split_points[k - 1] < split_points[k]
        /\ split_points[1] = 0
        /\ split_points[Len(split_points)] = Len(text)
        /\ \A k \in DOMAIN split_points :
               \/ split_points[k] \in {0, Len(text)}
               \/ \E p \in 0 .. PatternCount - 1 :
                      MatchEnd(p, text, split_points[k]) >= 0
        /\ MatchStarts(text) \subseteq SeqRange(split_points)

\* the list has one offset between 0 and len(text), where two patterns
\* match, while other patterns match nowhere in the text
C25_Witness ==
    /\ pc = "loop"
    /\ Len(split_points) = 3
    /\ \E p, q \in 0 .. PatternCount - 1 :
           /\ p # q
           /\ split_points[2] \in SeqRange(finditer(p, text))
           /\ split_points[2] \in SeqRange(finditer(q, text))
    /\ \E p \in 0 .. PatternCount - 1 : finditer(p, text) = <<>>


\* C26: once every HierarchicalChunker.chunk_text call on the instance has
\* returned, one call or two concurrent ones, target_chunk_size and
\* max_chunk_size are what they were before the first call began, and
\* min_chunk_size, overlap_size, levels and level_size_multiplier are never
\* written.
C26_SizesRestored ==
    /\ callers # <<>> =>
           /\ self.min_chunk_size = configured.min_chunk_size
           /\ self.overlap_size = configured.overlap_size
           /\ self.levels = configured.levels
           /\ self.level_size_multiplier = configured.level_size_multiplier
    /\ (callers # <<>> /\ \A t \in DOMAIN callers : callers[t].pc = "returned") =>
           /\ self.target_chunk_size = configured.target_chunk_size
           /\ self.max_chunk_size = configured.max_chunk_size


\* C27: under every configuration with min_chunk_size <= max_chunk_size,
\* every chunk SmartChunker.chunk_text returns has at most max_chunk_size
\* tokens, whatever the text.
C27_ChunksSizeBounded ==
    (pc = "done" /\ ValidConfig(self)) =>
        \A k \in DOMAIN result : count_tokens(result[k].text) <= self.max_chunk_size


\* C28: whatever the keys of the metadata map, every chunk chunk_text
\* returns keeps the fields the engine gave it: its text is the text cut
\* from the document, its chunk_id is made of that text and its index, and
\* its chunk_index and total_chunks are its position and the number of
\* chunks of the pass.
C28_EngineFieldsKept ==
    pc = "done" =>
        /\ Len(result) = Len(chunks)
        /\ \A k \in DOMAIN result :
               /\ result[k].text = chunks[k]
               /\ result[k].chunk_id = generate_chunk_id(chunks[k], k - 1)
               /\ result[k].chunk_index = k - 1
               /\ result[k].total_chunks = Len(chunks)


\* no two chunks of the list have the same chunk_id
UniqueIds(list) ==
    \A j, k \in DOMAIN list : j # k => list[j].chunk_id # list[k].chunk_id

\* C29: no two chunks of the list returned by one call have the same
\* chunk_id: one SmartChunker.chunk_text call, one
\* HierarchicalChunker.chunk_text call (all levels together), one
\* chunk_structured_document call (all fields and array elements together).
C29_ChunkIdsUnique ==
    /\ pc = "done" => UniqueIds(result)
    /\ \A t \in DOMAIN callers :
           callers[t].pc = "returned" => UniqueIds(callers[t].all_chunks)
    /\ walker.pc = "returned" => UniqueIds(walker.all_chunks)


\* the offsets of s at which a paragraph break (two or more newlines)
\* begins, with a non-empty paragraph before it and one after it
ParagraphBreaks(s) ==
    {i \in 1 .. Len(s) - 2 :
        /\ At(s, i) = "\n" /\ At(s, i + 1) = "\n"
        /\ At(s, i - 1) # "\n"
        /\ ~IsBlank(Slice(s, 0, i))
        /\ ~IsBlank(Slice(s, i, Len(s)))}

\* C30: for a text with a paragraph break between two non-empty paragraphs,
\* the offset of the break in the normalized text is one of the split
\* points of _find_split_points and the scorer gives it the rank of the
\* strongest pattern, 0, and the boundary_score 1.0.
C30_ParagraphBreakKept ==
    pc \in {"loop", "emit", "done"} =>
        \A i \in ParagraphBreaks(raw) :
            LET offset == Len(preprocess_text(Slice(raw, 0, i)))
            IN /\ offset \in SeqRange(split_points)
               /\ PatternHitsNear(text, offset, 0)
               /\ calculate_boundary_score(text, offset) = 10

=============================================================================
